---- MODULE Spec2Model ----
(***************************************************************************)
(* A model of the pg-fsm worker: the dispatcher loop of Worker::run /      *)
(* Worker::recv_task, the per-task executor Task::run_step with its        *)
(* outcome writes, and the Scheduler enqueue API, all acting on the        *)
(* pg_task table.                                                          *)
(***************************************************************************)
EXTENDS Integers, FiniteSets, Bags, TLC

\* ---------------------------------------------------------------- bounds
MaxTime == 2
MaxTasks == 1
LoadTasks == 2
LiveTime == 1
LiveTasks == 1
MultiTasks == 1
NumWorkers == 2
MaxConcurrency == 2
MaxCrashes == 1

\* ------------------------------------------------------- program constants
\* Step::RETRY_DELAY, in clock ticks
RETRY_DELAY == 1
\* the delay passed to Scheduler::delay and carried by NextStep::Delayed
InputDelay == 1

VARIABLES
    now,          \* the clock read by Utc::now() and by the database's now()
    dbUp,         \* whether the database answers
    table,        \* pg_task: id -> row
    nextId,       \* the next id the store assigns
    quota,        \* how many tasks the clients submit in this run
    horizon,      \* how far the clock runs in this run
    concurrency,  \* Worker.concurrency
    pc,           \* each worker's position in Worker::run
    cur,          \* the Option<Task> held by the dispatcher
    tx,           \* the dispatcher's transaction
    timer,        \* the deadline of the dispatcher's current wait
    notified,     \* the subscription returned by waiter.subscribe() has fired
    connected,    \* the notifier's LISTEN connection is up
    permits,      \* free permits of the semaphore
    exec,         \* the spawned run_step futures that have not finished
    invoked,      \* per row, how often Step::step ran on its current step
    crashes       \* worker crashes so far

vars == <<now, dbUp, table, nextId, quota, horizon, concurrency, pc, cur, tx, timer,
          notified, connected, permits, exec, invoked, crashes>>

Workers == 1..NumWorkers
Max(S) == CHOOSE x \in S : \A y \in S : x >= y

Ids == 1..Max({MaxTasks, LoadTasks, LiveTasks, MultiTasks})

NULL == "NULL"
Forever == -1

\* ------------------------------------------------------------ user steps
\* The step enum of the embedding program: three variants and one stored
\* document that no variant decodes.
StepDocs == {"A", "B", "C", "garbage"}

\* the documents clients enqueue; "B" is only reached as a next step of "A"
StoredDocs == {"A", "C", "garbage"}

Decodes(doc) == doc \in {"A", "B", "C"}

\* Step::retry_limit: the RETRY_LIMIT of the variant (default 0)
RetryLimit(doc) ==
    CASE doc = "A" -> 1
      [] doc = "B" -> 0
      [] doc = "C" -> 2
      [] OTHER -> 0

\* What Step::step may return. "unserializable" is a next step that
\* serde_json::to_string rejects.
Outcomes(doc) ==
    CASE doc = "A" -> {[kind |-> "none", step |-> "", delay |-> 0],
                       [kind |-> "now", step |-> "B", delay |-> 0],
                       [kind |-> "delayed", step |-> "B", delay |-> InputDelay],
                       [kind |-> "now", step |-> "unserializable", delay |-> 0],
                       [kind |-> "err", step |-> "", delay |-> 0]}
      [] doc = "B" -> {[kind |-> "none", step |-> "", delay |-> 0],
                       [kind |-> "err", step |-> "", delay |-> 0]}
      [] doc = "C" -> {[kind |-> "err", step |-> "", delay |-> 0]}
      [] OTHER -> {}

Encodes(step) == step \in {"A", "B", "C"}

\* --------------------------------------------------------------- records
NoTask == [id |-> 0, step |-> "", tried |-> 0, wakeup_at |-> 0]
NoTx == [open |-> FALSE, start |-> 0, row |-> 0]

\* struct Task, as selected by fetch_closest
TaskOf(id) ==
    [id |-> id, step |-> table[id].step, tried |-> table[id].tried,
     wakeup_at |-> table[id].wakeup_at]

\* the row INSERTed by Scheduler::schedule; the other columns take their
\* defaults
NewRow(step, at) ==
    [step |-> step, tried |-> 0, wakeup_at |-> at, is_running |-> FALSE,
     error |-> NULL, updated_at |-> now]

\* ----------------------------------------------------------------- store
\* a row is locked FOR UPDATE by an open transaction
Locked(id) == \E w \in Workers : tx[w].open /\ tx[w].row = id

LockedByOther(id, w) == \E v \in Workers \ {w} : tx[v].open /\ tx[v].row = id

\* every insert into or update of pg_task signals each connected notifier
Notify == [w \in Workers |-> notified[w] \/ connected[w]]

Min(S) == CHOOSE x \in S : \A y \in S : x <= y

\* a WHERE clause that forgets the error column
EligibleIgnoringError == {id \in DOMAIN table : ~table[id].is_running}

\* the WHERE clause of fetch_closest
Eligible == {id \in DOMAIN table :
                ~table[id].is_running /\ table[id].error = NULL}

\* LIMIT 1 without the ORDER BY
ClosestUnordered == Eligible

\* ORDER BY wakeup_at LIMIT 1: the rows the query may return
Closest ==
    {id \in Eligible :
        table[id].wakeup_at = Min({table[j].wakeup_at : j \in Eligible})}

\* util::chrono_duration_to_std
ChronoDurationToStd(d) == IF d > 0 THEN d ELSE 0

\* util::std_duration_to_chrono
StdDurationToChrono(d) == d


\* ---------------------------------------------------------- table writes
\* a startup that leaves the stale locks in place
UnlockNothing(tbl) == tbl

\* UPDATE pg_task SET is_running = false WHERE is_running = true
UnlockStale(tbl) ==
    [id \in DOMAIN tbl |-> [tbl[id] EXCEPT !.is_running = FALSE]]

\* Task::mark_running, inside the transaction that began at txStart
MarkRunning(tbl, id, txStart) ==
    [tbl EXCEPT ![id] = [@ EXCEPT !.is_running = TRUE,
                                  !.updated_at = txStart]]

\* save_error that releases the row without recording the error
SaveErrorWithoutError(tbl, id, err) ==
    IF id \in DOMAIN tbl
    THEN [tbl EXCEPT ![id] = [@ EXCEPT !.is_running = FALSE,
                                       !.updated_at = now,
                                       !.wakeup_at = now]]
    ELSE tbl

\* Task::save_error
SaveError(tbl, id, err) ==
    IF id \in DOMAIN tbl
    THEN [tbl EXCEPT ![id] = [@ EXCEPT !.is_running = FALSE,
                                       !.error = err,
                                       !.updated_at = now,
                                       !.wakeup_at = now]]
    ELSE tbl

\* save_next_step that keeps the attempt counter
SaveNextStepKeepsTried(tbl, id, step, delay) ==
    IF ~Encodes(step)
    THEN SaveError(tbl, id, "serialize")
    ELSE IF id \in DOMAIN tbl
    THEN [tbl EXCEPT ![id] = [@ EXCEPT !.is_running = FALSE,
                                       !.step = step,
                                       !.updated_at = now + StdDurationToChrono(delay),
                                       !.wakeup_at = now + StdDurationToChrono(delay)]]
    ELSE tbl

\* Task::save_next_step
SaveNextStep(tbl, id, step, delay) ==
    IF ~Encodes(step)
    THEN SaveError(tbl, id, "serialize")
    ELSE IF id \in DOMAIN tbl
    THEN [tbl EXCEPT ![id] = [@ EXCEPT !.is_running = FALSE,
                                       !.tried = 0,
                                       !.step = step,
                                       !.updated_at = now + StdDurationToChrono(delay),
                                       !.wakeup_at = now + StdDurationToChrono(delay)]]
    ELSE tbl

\* Task::complete
Complete(tbl, id) == [j \in DOMAIN tbl \ {id} |-> tbl[j]]

\* Task::retry
Retry(tbl, id, delay) ==
    IF id \in DOMAIN tbl
    THEN [tbl EXCEPT ![id] = [@ EXCEPT !.is_running = FALSE,
                                       !.tried = @ + 1,
                                       !.updated_at = now,
                                       !.wakeup_at = now + StdDurationToChrono(delay)]]
    ELSE tbl

\* process_error that retries once too often
ProcessErrorOffByOne(tbl, id, tried, retry_limit, retry_delay, err) ==
    IF tried <= retry_limit
    THEN Retry(tbl, id, retry_delay)
    ELSE SaveError(tbl, id, err)

\* Task::process_error
ProcessError(tbl, id, tried, retry_limit, retry_delay, err) ==
    IF tried < retry_limit
    THEN Retry(tbl, id, retry_delay)
    ELSE SaveError(tbl, id, err)

\* the match on the result of Step::step in Task::run_step
RecordOutcome(tbl, task, o) ==
    CASE o.kind = "err" ->
            ProcessError(tbl, task.id, task.tried, RetryLimit(task.step),
                         RETRY_DELAY, "boom")
      [] o.kind = "none" -> Complete(tbl, task.id)
      [] o.kind = "now" -> SaveNextStep(tbl, task.id, o.step, 0)
      [] o.kind = "delayed" -> SaveNextStep(tbl, task.id, o.step, o.delay)

\* a failed statement that still releases the row
WriteReleasing(id, new) ==
    /\ dbUp => ~Locked(id)
    /\ table' = IF dbUp THEN new
                ELSE [j \in DOMAIN table |->
                         IF j = id THEN [table[j] EXCEPT !.is_running = FALSE]
                         ELSE table[j]]
    /\ notified' = IF dbUp /\ id \in DOMAIN new THEN Notify ELSE notified

\* One statement of an executor against the pool: it waits for a row lock
\* held by a dispatcher's transaction, fails when the database is down, and
\* an UPDATE that changed a row publishes a change notification.
Write(id, new) ==
    /\ dbUp => ~Locked(id)
    /\ table' = IF dbUp THEN new ELSE table
    /\ notified' = IF dbUp /\ id \in DOMAIN new THEN Notify ELSE notified

\* ----------------------------------------------------------- environment
Tick ==
    /\ now < horizon
    /\ now' = now + 1
    /\ UNCHANGED <<dbUp, table, nextId, quota, horizon, concurrency, pc, cur, tx,
                   timer, notified, connected, permits, exec, invoked,
                   crashes>>

\* Scheduler::schedule, reached from enqueue (at = now) and delay
Enqueue(step, at) ==
    /\ nextId <= quota
    /\ dbUp
    /\ table' = [id \in DOMAIN table \cup {nextId} |->
                    IF id = nextId THEN NewRow(step, at) ELSE table[id]]
    /\ nextId' = nextId + 1
    /\ notified' = Notify
    /\ UNCHANGED <<now, dbUp, quota, horizon, concurrency, pc, cur, tx, timer,
                   connected, permits, exec, invoked, crashes>>

DbDown ==
    /\ dbUp
    /\ dbUp' = FALSE
    /\ UNCHANGED <<now, table, nextId, quota, horizon, concurrency, pc, cur, tx,
                   timer, notified, connected, permits, exec, invoked,
                   crashes>>

DbUp ==
    /\ ~dbUp
    /\ dbUp' = TRUE
    /\ UNCHANGED <<now, table, nextId, quota, horizon, concurrency, pc, cur, tx,
                   timer, notified, connected, permits, exec, invoked,
                   crashes>>

\* the notifier's subscription drops
NotifierDrop(w) ==
    /\ connected[w]
    /\ connected' = [connected EXCEPT ![w] = FALSE]
    /\ UNCHANGED <<now, dbUp, table, nextId, quota, horizon, concurrency, pc, cur,
                   tx, timer, notified, permits, exec, invoked, crashes>>

\* the notifier re-establishes its subscription
NotifierReconnect(w) ==
    /\ pc[w] \notin {"off", "init", "listen", "returned"}
    /\ ~connected[w]
    /\ dbUp
    /\ connected' = [connected EXCEPT ![w] = TRUE]
    /\ UNCHANGED <<now, dbUp, table, nextId, quota, horizon, concurrency, pc, cur,
                   tx, timer, notified, permits, exec, invoked, crashes>>

\* the worker process dies and is started again: its futures, permits,
\* subscription and open transaction are gone, the table stays as it is
Crash(w) ==
    /\ pc[w] \notin {"off", "init"}
    /\ crashes < MaxCrashes
    /\ crashes' = crashes + 1
    /\ pc' = [pc EXCEPT ![w] = "init"]
    /\ cur' = [cur EXCEPT ![w] = NoTask]
    /\ tx' = [tx EXCEPT ![w] = NoTx]
    /\ timer' = [timer EXCEPT ![w] = 0]
    /\ notified' = [notified EXCEPT ![w] = FALSE]
    /\ connected' = [connected EXCEPT ![w] = FALSE]
    /\ permits' = [permits EXCEPT ![w] = 0]
    /\ exec' = [exec EXCEPT ![w] = EmptyBag]
    /\ UNCHANGED <<now, dbUp, table, nextId, quota, horizon, concurrency, invoked>>


\* ---------------------------------------------------------------- worker
\* Worker::unlock_stale_tasks, the first statement of Worker::run
UnlockStaleTasks(w) ==
    /\ pc[w] = "init"
    /\ IF dbUp
       THEN /\ table' = UnlockStale(table)
            /\ notified' = IF \E id \in DOMAIN table : table[id].is_running
                           THEN Notify ELSE notified
            /\ pc' = [pc EXCEPT ![w] = "listen"]
       ELSE /\ pc' = [pc EXCEPT ![w] = "returned"]
            /\ UNCHANGED <<table, notified>>
    /\ UNCHANGED <<now, dbUp, nextId, quota, horizon, concurrency, cur, tx, timer,
                   connected, permits, exec, invoked, crashes>>

\* waiter.listen and Semaphore::new in Worker::run
Listen(w) ==
    /\ pc[w] = "listen"
    /\ IF dbUp
       THEN /\ connected' = [connected EXCEPT ![w] = TRUE]
            /\ permits' = [permits EXCEPT ![w] = concurrency]
            /\ pc' = [pc EXCEPT ![w] = "loop"]
       ELSE /\ pc' = [pc EXCEPT ![w] = "returned"]
            /\ UNCHANGED <<connected, permits>>
    /\ UNCHANGED <<now, dbUp, table, nextId, quota, horizon, concurrency, cur, tx,
                   timer, notified, exec, invoked, crashes>>

\* a recv_task whose begin or select error is passed on by Worker::run
SubscribeFetchFatal(w) ==
    /\ pc[w] = "loop"
    /\ notified' = [notified EXCEPT ![w] = FALSE]
    /\ IF dbUp
       THEN /\ \/ /\ Closest = {}
                  /\ cur' = [cur EXCEPT ![w] = NoTask]
                  /\ tx' = [tx EXCEPT ![w] = [open |-> TRUE, start |-> now,
                                               row |-> 0]]
               \/ \E id \in Closest :
                      /\ ~LockedByOther(id, w)
                      /\ cur' = [cur EXCEPT ![w] = TaskOf(id)]
                      /\ tx' = [tx EXCEPT ![w] = [open |-> TRUE, start |-> now,
                                                   row |-> id]]
            /\ pc' = [pc EXCEPT ![w] = "fetched"]
       ELSE /\ pc' = [pc EXCEPT ![w] = "returned"]
            /\ UNCHANGED <<cur, tx>>
    /\ UNCHANGED <<now, dbUp, table, nextId, quota, horizon, concurrency, timer,
                   connected, permits, exec, invoked, crashes>>

\* recv_task: waiter.subscribe(), db.begin() and Task::fetch_closest. The
\* SELECT ... FOR UPDATE waits while another transaction holds the lock of
\* the row it would return.
SubscribeFetch(w) ==
    /\ pc[w] = "loop"
    /\ notified' = [notified EXCEPT ![w] = FALSE]
    /\ IF dbUp
       THEN /\ \/ /\ Closest = {}
                  /\ cur' = [cur EXCEPT ![w] = NoTask]
                  /\ tx' = [tx EXCEPT ![w] = [open |-> TRUE, start |-> now,
                                               row |-> 0]]
               \/ \E id \in Closest :
                      /\ ~LockedByOther(id, w)
                      /\ cur' = [cur EXCEPT ![w] = TaskOf(id)]
                      /\ tx' = [tx EXCEPT ![w] = [open |-> TRUE, start |-> now,
                                                   row |-> id]]
            /\ pc' = [pc EXCEPT ![w] = "fetched"]
       ELSE /\ pc' = [pc EXCEPT ![w] = "backoff"]
            /\ UNCHANGED <<cur, tx>>
    /\ UNCHANGED <<now, dbUp, table, nextId, quota, horizon, concurrency, timer,
                   connected, permits, exec, invoked, crashes>>

\* a time_to_run that is one tick short
TimeToRunEarly(task) == task.wakeup_at - (now + 1)

\* recv_task: task.wakeup_at - Utc::now()
TimeToRun(task) == task.wakeup_at - now

\* recv_task: the task is due, mark it running, commit and return it
MarkRunningCommit(w) ==
    /\ pc[w] = "fetched"
    /\ cur[w] # NoTask
    /\ TimeToRun(cur[w]) <= 0
    /\ IF dbUp
       THEN /\ table' = MarkRunning(table, cur[w].id, tx[w].start)
            /\ notified' = Notify
            /\ pc' = [pc EXCEPT ![w] = "acquire"]
            /\ UNCHANGED cur
       ELSE /\ cur' = [cur EXCEPT ![w] = NoTask]
            /\ pc' = [pc EXCEPT ![w] = "backoff"]
            /\ UNCHANGED <<table, notified>>
    /\ tx' = [tx EXCEPT ![w] = NoTx]
    /\ UNCHANGED <<now, dbUp, nextId, quota, horizon, concurrency, timer, connected,
                   permits, exec, invoked, crashes>>

\* a wait_for that starts before the commit
CommitWaitForUncommitted(w) ==
    /\ pc[w] = "fetched"
    /\ cur[w] # NoTask
    /\ TimeToRun(cur[w]) > 0
    /\ IF dbUp
       THEN /\ timer' = [timer EXCEPT
                            ![w] = now + ChronoDurationToStd(TimeToRun(cur[w]))]
            /\ pc' = [pc EXCEPT ![w] = "wait"]
            /\ UNCHANGED tx
       ELSE /\ pc' = [pc EXCEPT ![w] = "backoff"]
            /\ tx' = [tx EXCEPT ![w] = NoTx]
            /\ UNCHANGED timer
    /\ cur' = [cur EXCEPT ![w] = NoTask]
    /\ UNCHANGED <<now, dbUp, table, nextId, quota, horizon, concurrency, notified,
                   connected, permits, exec, invoked, crashes>>

\* recv_task: the task is not due, commit and wait_for(time_to_run)
CommitWaitFor(w) ==
    /\ pc[w] = "fetched"
    /\ cur[w] # NoTask
    /\ TimeToRun(cur[w]) > 0
    /\ IF dbUp
       THEN /\ timer' = [timer EXCEPT
                            ![w] = now + ChronoDurationToStd(TimeToRun(cur[w]))]
            /\ pc' = [pc EXCEPT ![w] = "wait"]
       ELSE /\ pc' = [pc EXCEPT ![w] = "backoff"]
            /\ UNCHANGED timer
    /\ cur' = [cur EXCEPT ![w] = NoTask]
    /\ tx' = [tx EXCEPT ![w] = NoTx]
    /\ UNCHANGED <<now, dbUp, table, nextId, quota, horizon, concurrency, notified,
                   connected, permits, exec, invoked, crashes>>

\* wait_forever on a subscription taken only when the wait starts
CommitWaitForeverLateSubscribe(w) ==
    /\ pc[w] = "fetched"
    /\ cur[w] = NoTask
    /\ IF dbUp
       THEN /\ timer' = [timer EXCEPT ![w] = Forever]
            /\ pc' = [pc EXCEPT ![w] = "wait"]
       ELSE /\ pc' = [pc EXCEPT ![w] = "backoff"]
            /\ UNCHANGED timer
    /\ tx' = [tx EXCEPT ![w] = NoTx]
    /\ notified' = [notified EXCEPT ![w] = FALSE]
    /\ UNCHANGED <<now, dbUp, table, nextId, quota, horizon, concurrency, cur,
                   connected, permits, exec, invoked, crashes>>

\* recv_task: no task, commit and wait_forever()
CommitWaitForever(w) ==
    /\ pc[w] = "fetched"
    /\ cur[w] = NoTask
    /\ IF dbUp
       THEN /\ timer' = [timer EXCEPT ![w] = Forever]
            /\ pc' = [pc EXCEPT ![w] = "wait"]
       ELSE /\ pc' = [pc EXCEPT ![w] = "backoff"]
            /\ UNCHANGED timer
    /\ tx' = [tx EXCEPT ![w] = NoTx]
    /\ UNCHANGED <<now, dbUp, table, nextId, quota, horizon, concurrency, cur,
                   notified, connected, permits, exec, invoked, crashes>>

\* Subscription::wait_for / wait_forever return: the signal fired after
\* subscribe(), or the timer expired
Woken(w) == notified[w] \/ (timer[w] # Forever /\ now >= timer[w])

WaitReturns(w) ==
    /\ pc[w] = "wait"
    /\ Woken(w)
    /\ pc' = [pc EXCEPT ![w] = "loop"]
    /\ timer' = [timer EXCEPT ![w] = 0]
    /\ UNCHANGED <<now, dbUp, table, nextId, quota, horizon, concurrency, cur, tx,
                   notified, connected, permits, exec, invoked, crashes>>

\* Spawn without waiting for a permit
SpawnUnbounded(w) ==
    /\ pc[w] = "acquire"
    /\ permits' = [permits EXCEPT ![w] = @ - 1]
    /\ exec' = [exec EXCEPT ![w] = @ (+) SetToBag({cur[w]})]
    /\ cur' = [cur EXCEPT ![w] = NoTask]
    /\ pc' = [pc EXCEPT ![w] = "loop"]
    /\ UNCHANGED <<now, dbUp, table, nextId, quota, horizon, concurrency, tx, timer,
                   notified, connected, invoked, crashes>>

\* Worker::run: acquire_owned() and tokio::spawn of run_step
Spawn(w) ==
    /\ pc[w] = "acquire"
    /\ permits[w] > 0
    /\ permits' = [permits EXCEPT ![w] = @ - 1]
    /\ exec' = [exec EXCEPT ![w] = @ (+) SetToBag({cur[w]})]
    /\ cur' = [cur EXCEPT ![w] = NoTask]
    /\ pc' = [pc EXCEPT ![w] = "loop"]
    /\ UNCHANGED <<now, dbUp, table, nextId, quota, horizon, concurrency, tx, timer,
                   notified, connected, invoked, crashes>>

\* util::wait_for_reconnection returns once the database answers its probe
WaitForReconnection == dbUp

\* Worker::run: recv_task failed; sleep, wait_for_reconnection, loop again
Reconnected(w) ==
    /\ pc[w] = "backoff"
    /\ WaitForReconnection
    /\ pc' = [pc EXCEPT ![w] = "loop"]
    /\ UNCHANGED <<now, dbUp, table, nextId, quota, horizon, concurrency, cur, tx,
                   timer, notified, connected, permits, exec, invoked,
                   crashes>>

\* a spawned future that ends without dropping its permit
FinishKeepingPermit(w, task) ==
    /\ exec' = [exec EXCEPT ![w] = @ (-) SetToBag({task})]
    /\ UNCHANGED permits

\* the spawned future ends: run_step returned, drop(permit)
Finish(w, task) ==
    /\ exec' = [exec EXCEPT ![w] = @ (-) SetToBag({task})]
    /\ permits' = [permits EXCEPT ![w] = @ + 1]

\* Task::run_step on a document that does not decode: save_error, whose
\* result is discarded
RunStepDecodeError(w, task) ==
    /\ BagIn(task, exec[w])
    /\ ~Decodes(task.step)
    /\ Write(task.id, SaveError(table, task.id, "deserialize"))
    /\ Finish(w, task)
    /\ UNCHANGED <<now, dbUp, nextId, quota, horizon, concurrency, pc, cur, tx, timer,
                   connected, invoked, crashes>>

\* Task::run_step: the step function returns o and the outcome is recorded
RunStep(w, task, o) ==
    /\ BagIn(task, exec[w])
    /\ Decodes(task.step)
    /\ o \in Outcomes(task.step)
    /\ Write(task.id, RecordOutcome(table, task, o))
    /\ invoked' = [invoked EXCEPT ![task.id] =
                      IF task.id \notin DOMAIN table' THEN 0
                      ELSE IF table'[task.id].step # table[task.id].step THEN 0
                      ELSE @ + 1]
    /\ Finish(w, task)
    /\ UNCHANGED <<now, dbUp, nextId, quota, horizon, concurrency, pc, cur, tx, timer,
                   connected, crashes>>

AllOutcomes == UNION {Outcomes(d) : d \in StepDocs}

\* ------------------------------------------------------- specifications
InitWith(ws, n, h, cs) ==
    /\ now = 0
    /\ dbUp = TRUE
    /\ table = [id \in {} |-> NewRow("A", 0)]
    /\ nextId = 1
    /\ quota = n
    /\ horizon = h
    /\ concurrency \in cs
    /\ pc = [w \in Workers |-> IF w \in ws THEN "init" ELSE "off"]
    /\ cur = [w \in Workers |-> NoTask]
    /\ tx = [w \in Workers |-> NoTx]
    /\ timer = [w \in Workers |-> 0]
    /\ notified = [w \in Workers |-> FALSE]
    /\ connected = [w \in Workers |-> FALSE]
    /\ permits = [w \in Workers |-> 0]
    /\ exec = [w \in Workers |-> EmptyBag]
    /\ invoked = [id \in Ids |-> 0]
    /\ crashes = 0

Init == InitWith({1}, MaxTasks, MaxTime, {MaxConcurrency})

InitLoad == InitWith({1}, LoadTasks, 0, 1..MaxConcurrency)

InitMulti == InitWith(Workers, MultiTasks, MaxTime, {1})

InitLive == InitWith({1}, LiveTasks, LiveTime, {1})

InitOutage == InitWith({1}, LiveTasks, LiveTime, {MaxConcurrency})

InitOutageCrash == InitWith({1}, LiveTasks, 0, {1})

Dispatch(w) ==
    \/ UnlockStaleTasks(w)
    \/ Listen(w)
    \/ SubscribeFetch(w)
    \/ MarkRunningCommit(w)
    \/ CommitWaitFor(w)
    \/ CommitWaitForever(w)
    \/ WaitReturns(w)
    \/ Spawn(w)

Execute(w) ==
    \/ \E task \in BagToSet(exec[w]) : RunStepDecodeError(w, task)
    \/ \E task \in BagToSet(exec[w]) : \E o \in AllOutcomes : RunStep(w, task, o)

Submit ==
    \E step \in StoredDocs :
        \E at \in {now, now + StdDurationToChrono(InputDelay)} :
            Enqueue(step, at)

\* workers and clients with a reachable database and no crash
NextCore ==
    \/ Tick
    \/ Submit
    \/ \E w \in Workers : Dispatch(w)
    \/ \E w \in Workers : Execute(w)

\* the same at one instant of the clock
NextLoad ==
    \/ Submit
    \/ \E w \in Workers : Dispatch(w)
    \/ \E w \in Workers : Execute(w)

\* the progress the runtime and the database guarantee: every future that
\* can run does run
Fairness ==
    /\ \A w \in Workers : WF_vars(Dispatch(w))
    /\ \A w \in Workers : WF_vars(Execute(w))

\* worker crashes added
NextCrash ==
    \/ NextCore
    \/ \E w \in Workers : Crash(w)

\* database outages added
NextOutage ==
    \/ NextCore
    \/ DbDown
    \/ DbUp
    \/ \E w \in Workers : Reconnected(w)

\* database outages and worker crashes at one instant of the clock
NextOutageCrash ==
    \/ NextLoad
    \/ DbDown
    \/ DbUp
    \/ \E w \in Workers : Reconnected(w)
    \/ \E w \in Workers : Crash(w)

\* subscription drops added
NextDrop ==
    \/ NextCore
    \/ \E w \in Workers : NotifierDrop(w)
    \/ \E w \in Workers : NotifierReconnect(w)

\* database outages, subscription drops and worker crashes added
Next ==
    \/ NextCore
    \/ DbDown
    \/ DbUp
    \/ \E w \in Workers : Reconnected(w)
    \/ \E w \in Workers : NotifierDrop(w)
    \/ \E w \in Workers : NotifierReconnect(w)
    \/ \E w \in Workers : Crash(w)

\* one worker, no faults
Spec == Init /\ [][NextCore]_vars

\* one worker under load: more due tasks than permits
SpecLoad == InitLoad /\ [][NextLoad]_vars

\* one worker, no faults, fair scheduling
SpecLive == InitLive /\ [][NextCore]_vars /\ Fairness

\* one worker that may crash and be started again, fair scheduling
SpecCrash == InitLive /\ [][NextCrash]_vars /\ Fairness

\* one worker and a database that comes and goes
SpecOutage == InitOutage /\ [][NextOutage]_vars

\* one worker that may crash and a database that comes and goes
SpecOutageCrash == InitOutageCrash /\ [][NextOutageCrash]_vars

\* one worker whose notifier may lose its subscription, fair scheduling
SpecDrop == InitLive /\ [][NextDrop]_vars /\ Fairness

\* one worker, with faults
SpecFaults == InitLive /\ [][Next]_vars

\* several workers on one table, no faults
SpecMulti == InitMulti /\ [][NextCore]_vars

TypeOK ==
    /\ now \in 0..horizon
    /\ nextId \in 1..(quota + 1)
    /\ DOMAIN table \subseteq Ids
    /\ \A w \in Workers : permits[w] \in 0..MaxConcurrency


\* ------------------------------------------------------------ properties
RECURSIVE SumOver(_, _)
SumOver(f, S) ==
    IF S = {} THEN 0
    ELSE LET x == CHOOSE y \in S : TRUE IN f[x] + SumOver(f, S \ {x})

\* the run_step futures of worker w that hold task id
Executors(w, id) ==
    LET held == {task \in BagToSet(exec[w]) : task.id = id}
    IN SumOver([task \in held |-> CopiesIn(task, exec[w])], held)

\* worker w has marked task id running and not yet spawned its executor
Returned(w, id) == pc[w] = "acquire" /\ cur[w].id = id

\* the executions of task id in progress, over all workers
Leases(id) ==
    SumOver([w \in Workers |->
                Executors(w, id) + (IF Returned(w, id) THEN 1 ELSE 0)],
            Workers)

\* C1: with several workers on one table, no task is held by two
\* executions at once: from a mark_running of the task until that
\* execution's outcome is recorded, nobody marks the same task running.
C1_NoTwoLeases == \A id \in Ids : Leases(id) <= 1


\* C2: a worker never has more executors running a step than its
\* configured concurrency.
C2_ExecutorsBounded ==
    \A w \in Workers : BagCardinality(exec[w]) <= concurrency

\* all permits are taken and one more task has been marked running
C2_Witness ==
    /\ BagCardinality(exec[1]) = concurrency
    /\ pc[1] = "acquire"


\* the ids the store assigns in the runs with fair scheduling
LiveIds == 1..LiveTasks

\* task id can be selected and its time has come
Due(id) == id \in Eligible /\ table[id].wakeup_at <= now

MarkedRunning(id) == id \in DOMAIN table /\ table[id].is_running

Parked(id) == id \in DOMAIN table /\ table[id].error # NULL

\* some dispatcher or executor holds task id
Held(id) ==
    \E w \in Workers :
        \/ Executors(w, id) > 0
        \/ pc[w] \in {"fetched", "acquire"} /\ cur[w].id = id

\* C4: a parked task (error not NULL) is never returned by recv_task and
\* never marked running.
C4_ParkedNeverSelected ==
    \A id \in Ids : Parked(id) => ~table[id].is_running /\ ~Held(id)

\* the dispatcher has fetched while a parked row was in the table, and got
\* nothing
C4_Witness ==
    /\ pc[1] = "fetched"
    /\ cur[1] = NoTask
    /\ \E id \in Ids : Parked(id) /\ table[id].wakeup_at <= now

\* C5: a task is marked running only when its wakeup_at has come, and no
\* executor runs a step before the wakeup_at of its task.
C5_NotBeforeWakeup ==
    /\ [][\A id \in DOMAIN table :
            (/\ ~table[id].is_running
             /\ id \in DOMAIN table'
             /\ table'[id].is_running) => table[id].wakeup_at <= now]_vars
    /\ [](\A w \in Workers : \A task \in BagToSet(exec[w]) :
            task.wakeup_at <= now)

\* a task that had to wait for a later wakeup_at is running
C5_Witness ==
    \E id \in Ids : MarkedRunning(id) /\ table[id].wakeup_at > 0

\* C6: when every call of the step function on a row's current step
\* failed, RETRY_LIMIT = n of them were retried and call n + 1 parked the
\* row: a row parked by a step error has seen n + 1 calls, tried = n and
\* is_running = false; before that the calls are as many as tried.
C6_RetriesThenFail ==
    \A id \in DOMAIN table :
        LET row == table[id]
            n == RetryLimit(row.step)
        IN /\ row.error = "boom" =>
                invoked[id] = n + 1 /\ row.tried = n /\ ~row.is_running
           /\ row.error = NULL => invoked[id] = row.tried

\* the always failing step C, RETRY_LIMIT 2, parked after three calls
C6_Witness ==
    \E id \in DOMAIN table :
        /\ table[id].step = "C"
        /\ table[id].error = "boom"
        /\ invoked[id] = 3

\* what the recorded outcome o of an execution of task leaves in the table
OutcomeRecorded(task, o) ==
    LET id == task.id
        a == table[id]
    IN CASE o.kind = "none" -> id \notin DOMAIN table'
         [] o.kind \in {"now", "delayed"} /\ Encodes(o.step) ->
                /\ id \in DOMAIN table'
                /\ table'[id].step = o.step
                /\ table'[id].tried = 0
                /\ ~table'[id].is_running
         [] o.kind = "err" /\ task.tried < RetryLimit(task.step) ->
                /\ id \in DOMAIN table'
                /\ table'[id].tried = a.tried + 1
                /\ table'[id].step = a.step
                /\ table'[id].error = a.error
                /\ ~table'[id].is_running
         [] o.kind = "err" /\ task.tried >= RetryLimit(task.step) ->
                /\ id \in DOMAIN table'
                /\ table'[id].tried = a.tried
                /\ table'[id].step = a.step
                /\ table'[id].error # NULL
                /\ ~table'[id].is_running
         [] OTHER -> TRUE

\* C7: Done removes the row; Next stores the new step with tried = 0 and
\* is_running = false; a retried error adds exactly 1 to tried and clears
\* is_running; a final error keeps tried and step, sets error and clears
\* is_running.
C7_OutcomeEffects ==
    [][\A w \in Workers : \A task \in BagToSet(exec[w]) :
          \A o \in AllOutcomes :
              RunStep(w, task, o) => OutcomeRecorded(task, o)]_vars

\* a row that was retried and then moved on to step B
C7_Witness ==
    \E id \in DOMAIN table :
        /\ table[id].step = "B"
        /\ table[id].tried = 0
        /\ ~table[id].is_running
        /\ table[id].wakeup_at > 0

\* C8: a row left marked running by a crash is unlocked by the next
\* startup and is executed again.
Stale(id) == pc[1] = "init" /\ MarkedRunning(id) /\ table[id].error = NULL

C8_StaleIsRecovered ==
    \A id \in LiveIds : Stale(id) ~> (Executors(1, id) > 0)

\* the worker crashed while a task was marked running
C8_Witness == crashes > 0 /\ \E id \in Ids : Stale(id)

\* C9: a stored step that does not decode, or a next step that does not
\* encode, parks the task without calling the step function on the
\* undecodable document, ends the executor, and the parked task stays
\* parked and unselected.
C9_UndecodableIsParked ==
    /\ [](\A id \in DOMAIN table :
            ~Decodes(table[id].step) => invoked[id] = 0)
    /\ [][\A w \in Workers : \A task \in BagToSet(exec[w]) :
            (\/ RunStepDecodeError(w, task)
             \/ \E o \in AllOutcomes :
                  /\ o.kind \in {"now", "delayed"}
                  /\ ~Encodes(o.step)
                  /\ RunStep(w, task, o))
            => /\ task.id \in DOMAIN table'
               /\ table'[task.id].error # NULL
               /\ ~table'[task.id].is_running
               /\ BagCardinality(exec'[w]) = BagCardinality(exec[w]) - 1]_vars
    /\ [][\A id \in Ids : Parked(id) =>
            /\ id \in DOMAIN table'
            /\ table'[id].error = table[id].error
            /\ ~table'[id].is_running
            /\ \A w \in Workers : cur'[w].id # id]_vars

\* a row whose step document does not decode has been parked
C9_Witness ==
    \E id \in DOMAIN table :
        /\ ~Decodes(table[id].step)
        /\ table[id].error = "deserialize"
        /\ ~table[id].is_running

\* C10: once startup is over, every row marked running has an executor
\* running its step, or is just being handed to one (a permit is free).
C10_RunningHasExecutor ==
    \A id \in Ids :
        (pc[1] \notin {"off", "init", "listen"} /\ MarkedRunning(id)) =>
            \/ Executors(1, id) > 0
            \/ Returned(1, id) /\ permits[1] > 0

\* C11: every row has 0 <= tried <= RETRY_LIMIT of the step it stores,
\* through retries, next steps of another variant and fails.
C11_TriedWithinLimit ==
    \A id \in DOMAIN table :
        /\ 0 <= table[id].tried
        /\ table[id].tried <= RetryLimit(table[id].step)

\* C12: after a successful startup a failing recv_task (begin, select,
\* mark_running or commit) never ends run(): the dispatcher backs off,
\* leaves the table as it was, and goes back to the loop only once the
\* database answers; run() returns only from the startup statements.
C12_FetchFailureNotFatal ==
    /\ [][\A w \in Workers :
            (pc[w] # "returned" /\ pc'[w] = "returned") =>
                pc[w] \in {"init", "listen"}]_vars
    /\ [][\A w \in Workers :
            (pc[w] # "backoff" /\ pc'[w] = "backoff") =>
                /\ pc[w] \in {"loop", "fetched"}
                /\ table' = table
                /\ ~tx'[w].open
                /\ cur'[w] = NoTask]_vars
    /\ [][\A w \in Workers :
            (pc[w] = "backoff" /\ pc'[w] # "backoff") =>
                dbUp /\ pc'[w] = "loop"]_vars

\* a recv_task iteration failed while a task was due: the dispatcher backs
\* off and the task is not marked running
C12_Witness ==
    /\ pc[1] = "backoff"
    /\ ~dbUp
    /\ \E id \in Ids : Due(id)

\* C13: with one worker and one clock, the updated_at values that the
\* successive writes (mark_running, retry, next step, fail) leave in a row
\* never decrease.
C13_UpdatedAtMonotone ==
    [][\A id \in DOMAIN table :
          id \in DOMAIN table' =>
              table'[id].updated_at >= table[id].updated_at]_vars

\* the permits taken from worker w's semaphore that no executor holds
HeldByDispatcher(w) == concurrency - permits[w] - BagCardinality(exec[w])

\* C14: the dispatcher acquires the permit before it fetches and marks a
\* task: when recv_task has marked a task running and returned it, the
\* dispatcher already holds the permit of that task's executor.
C14_PermitBeforeMark ==
    \A w \in Workers : pc[w] = "acquire" => HeldByDispatcher(w) >= 1

\* C15: while the notifier is disconnected the timer waits keep the
\* dispatcher going: a due task, also one enqueued after the dispatcher
\* found the table empty, is marked running unless the subscription comes
\* back first.
C15_DueWithoutNotification ==
    \A id \in LiveIds :
        (Due(id) /\ ~connected[1]) ~> (MarkedRunning(id) \/ connected[1])

\* C16: the task recv_task marks running is the one its fetch returned, and
\* that fetch returned a row with the smallest wakeup_at among the rows with
\* is_running = false and error NULL at that moment; a row is marked only
\* after a fetch, so a dispatcher that waits for a future task marks an
\* earlier one enqueued meanwhile first.
C16_ClosestFirst ==
    /\ [][\A w \in Workers :
            (pc[w] = "loop" /\ pc'[w] = "fetched" /\ cur'[w] # NoTask) =>
                /\ cur'[w].id \in Eligible
                /\ cur'[w] = TaskOf(cur'[w].id)
                /\ \A j \in Eligible : cur'[w].wakeup_at <= table[j].wakeup_at]_vars
    /\ [][\A id \in DOMAIN table :
            (/\ ~table[id].is_running
             /\ id \in DOMAIN table'
             /\ table'[id].is_running) =>
                \E w \in Workers :
                    /\ pc[w] = "fetched"
                    /\ pc'[w] = "acquire"
                    /\ cur[w] = TaskOf(id)
                    /\ tx[w].row = id]_vars

\* a task due later was enqueued first; the one enqueued after it with an
\* earlier wakeup_at has been marked running while the first still waits
C16_Witness ==
    \E id \in DOMAIN table : \E j \in Eligible :
        /\ j < id
        /\ table[id].is_running
        /\ table[id].wakeup_at < table[j].wakeup_at

\* C17: the dispatcher never waits with an open transaction or a row lock:
\* the transaction of the fetch is committed before wait_for or
\* wait_forever starts, and a fetched task that is not due yet stays
\* is_running = false.
C17_NoWaitInTransaction ==
    /\ [](\A w \in Workers : pc[w] = "wait" => ~tx[w].open /\ tx[w].row = 0)
    /\ [][\A w \in Workers :
            (pc[w] # "wait" /\ pc'[w] = "wait") =>
                /\ pc[w] = "fetched"
                /\ tx[w].open
                /\ table' = table
                /\ cur[w] # NoTask =>
                      /\ cur[w].wakeup_at > now
                      /\ ~table'[cur[w].id].is_running]_vars

\* the dispatcher waits for the wakeup_at of a task that is not due
C17_Witness ==
    /\ pc[1] = "wait"
    /\ timer[1] > now
    /\ \E id \in Eligible : table[id].wakeup_at > now /\ ~Locked(id)

\* worker w has created its semaphore
Started(w) == pc[w] \in {"loop", "fetched", "wait", "acquire", "backoff"}

\* C18: no permit is leaked: every end of an executor, also one whose
\* outcome write failed, gives its permit back, so free permits plus
\* running executors equal the configured concurrency, and all permits are
\* free when no executor runs.
C18_PermitsConserved ==
    /\ [](\A w \in Workers :
            Started(w) =>
                /\ permits[w] + BagCardinality(exec[w]) = concurrency
                /\ exec[w] = EmptyBag => permits[w] = concurrency)
    /\ [][\A w \in Workers : \A task \in BagToSet(exec[w]) :
            (\/ RunStepDecodeError(w, task)
             \/ \E o \in AllOutcomes : RunStep(w, task, o))
            => /\ permits'[w] = permits[w] + 1
               /\ BagCardinality(exec'[w]) = BagCardinality(exec[w]) - 1]_vars

\* an executor could not record its outcome: its row is still marked
\* running, the executor is gone and every permit is free
C18_Witness ==
    /\ Started(1)
    /\ permits[1] = concurrency
    /\ \E id \in Ids :
          MarkedRunning(id) /\ Executors(1, id) = 0 /\ ~Returned(1, id)

\* C19: updated_at is the time of the row's last write: mark_running and
\* every outcome write (retry, next step with any delay, fail) store the
\* time at which they are made, and no row has an updated_at later than
\* the clock.
C19_UpdatedAtIsWriteTime ==
    /\ [][\A id \in DOMAIN table :
            (/\ id \in DOMAIN table'
             /\ table'[id].is_running # table[id].is_running)
            => table'[id].updated_at = now]_vars
    /\ [](\A id \in DOMAIN table : table[id].updated_at <= now)

\* row id is marked running and no dispatcher or executor holds it
Orphan(id) ==
    /\ MarkedRunning(id)
    /\ \A w \in Workers : Executors(w, id) = 0 /\ ~Returned(w, id)

\* C20: when the write that records an executor's outcome fails, the
\* executor ends and frees its permit while the row stays is_running = true
\* with its step, tried and error; such a row is not fetched by the running
\* worker and changes only when a later startup unlocks it.
C20_FailedWriteLeavesLease ==
    /\ [][\A w \in Workers : \A task \in BagToSet(exec[w]) :
            (/\ ~dbUp
             /\ \/ RunStepDecodeError(w, task)
                \/ \E o \in AllOutcomes : RunStep(w, task, o))
            => /\ table' = table
               /\ MarkedRunning(task.id)
               /\ permits'[w] = permits[w] + 1
               /\ BagCardinality(exec'[w]) = BagCardinality(exec[w]) - 1]_vars
    /\ [][\A id \in Ids :
            Orphan(id) =>
                /\ id \in DOMAIN table'
                /\ \A w \in Workers : cur'[w].id # id
                /\ \/ table'[id] = table[id]
                   \/ /\ \E w \in Workers : pc[w] = "init" /\ pc'[w] = "listen"
                      /\ table'[id] = [table[id] EXCEPT !.is_running = FALSE]]_vars

\* without any crash, a row is marked running, its executor has ended and
\* the dispatcher waits with the database up and every permit free
C20_Witness ==
    /\ crashes = 0
    /\ dbUp
    /\ pc[1] = "wait"
    /\ permits[1] = concurrency
    /\ \E id \in Ids : Orphan(id)

====
